---- MODULE Spec2Model ----
(***************************************************************************)
(* A model of the `fika` crate: the LL/SC Treiber stack (treiber/mod.rs),  *)
(* the object, box and arc pools layered over it, and the SPSC channel     *)
(* (spsc.rs).  Every shared-memory access of the source is one step.       *)
(*                                                                         *)
(* Memory is sequentially consistent at the granularity of these steps,    *)
(* and every core has an exclusive monitor of its own: a reservation is    *)
(* lost to any successful STREX on the same `top`, and a STREX may fail    *)
(* spuriously.  Threads run on a core each, except in SpecPreempt, where   *)
(* a thread and an interrupt handler share one core and its monitor.       *)
(***************************************************************************)
EXTENDS Integers, Sequences, FiniteSets, TLC

(* ---------------------------- bounds ----------------------------------- *)
NumThreads == 2
NumSlots == 2
MaxHandles == 2
NumPools == 2

(* ------------------------- program constants --------------------------- *)
\* usize is modelled WordBits wide.  With WordBits even, 2^WordBits mod 3 = 1,
\* as for the 32 and 64 bits of the targets.
WordBits == 4
Word == 2 ^ WordBits
MAX_REFCOUNT == (Word \div 2) - 1

Threads == 1 .. NumThreads
Slots == 1 .. NumSlots
\* the pools that exist, and the pool the threads of Spec share
AllPools == 1 .. NumPools
Pools == {1}
Values == {1, 2}
Kinds == {"object", "box", "arc"}

Null == 0       \* ptr::null_mut()
None == 0       \* Option::None for the `stack` back-pointer
NoResv == 0     \* the exclusive monitor holds no reservation
Uninit == 0     \* MaybeUninit::uninit()
NoRet == <<"none">>  \* the thread has no result of a request at hand

VARIABLES
  kind,          \* which pool module the stack belongs to
  cpu,           \* the core, and so the exclusive monitor, a thread runs on
  top,           \* Stack::top, per pool
  next,          \* Node::next, per slot
  stack,         \* Inner::stack back-pointer, per slot
  data,          \* Inner::data, per slot
  strong_count,  \* Inner::strong_count, per slot (arc pool)
  pc,            \* per thread: position in the operation it executes
  op,            \* per thread: the public operation in progress
  pool,          \* per thread: `self` of the operation
  node,          \* per thread: the node being pushed
  ltop,          \* per thread: local `top` of push / pop
  lnext,         \* per thread: local `next` of pop
  val,           \* per thread: the `value` argument of request
  resv,          \* per thread: address reserved by the last load_link
  held,          \* per thread and slot: number of live handles
  payloadLive,   \* ghost: the slot's payload is initialised and not dropped
  dtors,         \* ghost: destructor runs of the slot since its last write
  fresh,         \* ghost: the slot has never been handed out by request
  abs,           \* ghost: the sequential LIFO stack, per pool
  linRet,        \* ghost: per thread, what the sequential stack returned
  hist,          \* ghost: nodes pushed and not popped, by completed calls
  ret,           \* per thread: what its last request returned
  capacity,      \* Channel: N
  read,          \* Inner::read
  write,         \* Inner::write
  buf,           \* Inner::buf: the bits each cell holds
  s_pc,          \* sender: position in send
  current_write, \* sender local
  acquired_read, \* sender local
  value,         \* sender: the argument of send
  send_ret,      \* sender: what the last send returned
  r_pc,          \* receiver: position in recv
  current_read,  \* receiver local
  acquired_write,\* receiver local
  slot_value,    \* receiver: the value read from the cell
  recv_ret,      \* receiver: what the last recv returned
  cellLive,      \* ghost: the cell holds a value sent and not yet received
  pending,       \* ghost: values accepted by send and not yet received
  expect,        \* ghost: the value the last successful recv was due
  marked,        \* ghost: how far the one tracked value (Marked) has got
  wch,           \* sequential channel whose cursors were preset
  zch,           \* sequential channel whose cursors start at 0
  wres,          \* result of the last operation on wch
  zres,          \* result of the last operation on zch
  nops,          \* operations applied to wch and zch
  v_addr,        \* Vec: storage.as_ptr() as usize
  v_size,        \* Vec: mem::size_of::<T>()
  v_storage,     \* Vec: the bytes of storage, each tagged with the element
                 \* written over it
  v_len,         \* Vec::len
  v_arg,         \* Vec: the element passed to the last push
  v_ret,         \* Vec: what the last push or pop returned
  v_ub,          \* Vec: an access fell outside storage
  v_elems        \* ghost: elements pushed with Ok and not popped yet

poolVars == <<kind, cpu, top, next, stack, data, strong_count, pc, op, pool, node,
              ltop, lnext, val, resv, held, payloadLive, dtors, fresh, abs,
              linRet, hist, ret>>

chanVars == <<capacity, read, write, buf, s_pc, current_write, acquired_read,
              value, send_ret, r_pc, current_read, acquired_write, slot_value,
              recv_ret, cellLive, pending, expect, marked>>

wrapVars == <<wch, zch, wres, zres, nops>>

vecVars == <<v_addr, v_size, v_storage, v_len, v_arg, v_ret, v_ub, v_elems>>

notPool == <<chanVars, wrapVars, vecVars>>

vars == <<poolVars, chanVars, wrapVars, vecVars>>

(* ----------------------------- helpers --------------------------------- *)
Min(a, b) == IF a < b THEN a ELSE b

RECURSIVE ChainFrom(_, _, _)
ChainFrom(nx, n, fuel) ==
  IF n = Null \/ fuel = 0 THEN <<>>
  ELSE <<n>> \o ChainFrom(nx, nx[n], fuel - 1)

\* the nodes linked in pool p's stack, top first
Chain(p) == ChainFrom(next, top[p], NumSlots + 1)

SeqToSet(s) == {s[i] : i \in 1 .. Len(s)}

RECURSIVE SumOver(_, _)
SumOver(f, S) ==
  IF S = {} THEN 0
  ELSE LET x == CHOOSE y \in S : TRUE IN f[x] + SumOver(f, S \ {x})

\* handles of slot s that threads hold (a handle leaves `held` when its drop
\* starts)
Held(s) == SumOver([t \in Threads |-> held[t][s]], Threads)

wrapping_add(a, b) == (a + b) % Word
wrapping_sub(a, b) == (a - b + Word) % Word

(* ------------------------------ Init ----------------------------------- *)
\* every thread on a core of its own
OneCoreEach == [t \in Threads |-> t]

\* thread 1 and the interrupt handler 2 that preempts it, on one core
OneCore == [t \in Threads |-> 1]

\* the pools and the slots as their constructors leave them
PoolNew ==
  /\ kind \in Kinds
  /\ top = [p \in AllPools |-> Null]
  /\ next = [s \in Slots |-> Null]
  /\ stack = [s \in Slots |-> None]
  /\ data \in [Slots -> IF kind = "object" THEN Values ELSE {Uninit}]
  /\ strong_count = [s \in Slots |-> IF kind = "arc" THEN 1 ELSE 0]
  /\ pc = [t \in Threads |-> "idle"]
  /\ op = [t \in Threads |-> "none"]
  /\ pool = [t \in Threads |-> 0]
  /\ node = [t \in Threads |-> Null]
  /\ ltop = [t \in Threads |-> Null]
  /\ lnext = [t \in Threads |-> Null]
  /\ val = [t \in Threads |-> Uninit]
  /\ resv = [t \in Threads |-> NoResv]
  /\ held = [t \in Threads |-> [s \in Slots |-> 0]]
  /\ payloadLive = [s \in Slots |-> kind = "object"]
  /\ dtors = [s \in Slots |-> 0]
  /\ fresh = [s \in Slots |-> TRUE]
  /\ abs = [p \in AllPools |-> <<>>]
  /\ linRet = [t \in Threads |-> Null]
  /\ hist = [p \in AllPools |-> <<>>]
  /\ ret = [t \in Threads |-> NoRet]

PoolInit == PoolNew /\ cpu = OneCoreEach

\* no channel: the channel's variables are parked
ChanNone ==
  /\ capacity = 1 /\ read = 0 /\ write = 0
  /\ buf = [i \in {0} |-> Uninit]
  /\ s_pc = "idle" /\ current_write = 0 /\ acquired_read = 0
  /\ value = Uninit /\ send_ret = <<"none">>
  /\ r_pc = "idle" /\ current_read = 0 /\ acquired_write = 0
  /\ slot_value = Uninit /\ recv_ret = <<"none">>
  /\ cellLive = [i \in {0} |-> FALSE]
  /\ pending = <<>> /\ expect = Uninit /\ marked = "none"

WrapNone ==
  /\ wch = <<>> /\ zch = <<>> /\ wres = <<"none">> /\ zres = <<"none">>
  /\ nops = 0

\* no vector: the vector's variables are parked
VecNone ==
  /\ v_addr = 0 /\ v_size = 1 /\ v_storage = <<>> /\ v_len = 0
  /\ v_arg = Uninit /\ v_ret = <<"none">> /\ v_ub = FALSE /\ v_elems = <<>>

(* ----------------------- LL/SC primitives ------------------------------ *)
\* faulty variant: an LDREX that leaves the monitor without a reservation
load_link_forgets(t, p) == [resv EXCEPT ![cpu[t]] = NoResv]

\* LDREX: the monitor of the executing core now holds a reservation on `top`
\* of pool p
load_link(t, p) == [resv EXCEPT ![cpu[t]] = p]

\* faulty variant: STREX that succeeds whatever became of the reservation
ReservationAlways(t, p) == TRUE

\* faulty variant: a compare-and-swap, which succeeds when `top` holds the
\* pointer that was loaded
ReservationCompares(t, p) == top[p] = ltop[t]

\* faulty variant: a STREX that fails whatever the monitor holds
ReservationNever(t, p) == FALSE

\* STREX can only succeed while the monitor of its core holds a reservation;
\* the local monitor need not compare the address with the one reserved
ReservationValid(t, p) == resv[cpu[t]] # NoResv

\* faulty variant: a successful STREX that leaves the other reservations standing
store_conditional_keeps(t, p) == [resv EXCEPT ![cpu[t]] = NoResv]

\* a successful STREX writes `top`: every reservation on it is lost, and so is
\* the one of the executing core
store_conditional_ok(t, p) ==
  [m \in Threads |-> IF m = cpu[t] \/ resv[m] = p THEN NoResv ELSE resv[m]]

\* faulty variant: a CLREX that leaves the monitor as it is
clear_load_link_nothing(t) == resv

\* a failed STREX, and CLREX, leave the monitor without a reservation
clear_load_link(t) == [resv EXCEPT ![cpu[t]] = NoResv]

(* ------------------------ thread bookkeeping --------------------------- *)
\* the operation of thread t returns: its locals go out of scope
Finish(t) ==
  /\ pc' = [pc EXCEPT ![t] = "idle"]
  /\ op' = [op EXCEPT ![t] = "none"]
  /\ pool' = [pool EXCEPT ![t] = 0]
  /\ node' = [node EXCEPT ![t] = Null]
  /\ ltop' = [ltop EXCEPT ![t] = Null]
  /\ lnext' = [lnext EXCEPT ![t] = Null]
  /\ val' = [val EXCEPT ![t] = Uninit]

Goto(t, l) == pc' = [pc EXCEPT ![t] = l]

AbsPopResult(p) == IF abs[p] = <<>> THEN Null ELSE Head(abs[p])
AbsPop(p) == IF abs[p] = <<>> THEN abs ELSE [abs EXCEPT ![p] = Tail(abs[p])]

(* --------------------------- Stack::push ------------------------------- *)
PushLoadLink(t) ==
  /\ pc[t] = "push_ll"
  /\ UNCHANGED notPool
  /\ ltop' = [ltop EXCEPT ![t] = top[pool[t]]]
  /\ resv' = load_link(t, pool[t])
  /\ Goto(t, "push_next")
  /\ UNCHANGED <<kind, cpu, top, next, stack, data, strong_count, op, pool, node,
                 lnext, val, held, payloadLive, dtors, fresh, abs, linRet, hist,
                 ret>>

PushStoreNext(t) ==
  /\ pc[t] = "push_next"
  /\ UNCHANGED notPool
  /\ next' = [next EXCEPT ![node[t]] = ltop[t]]
  /\ Goto(t, "push_sc")
  /\ UNCHANGED <<kind, cpu, top, stack, data, strong_count, op, pool, node, ltop,
                 lnext, val, resv, held, payloadLive, dtors, fresh, abs, linRet,
                 hist,
                 ret>>

PushStoreConditional(t) ==
  /\ pc[t] = "push_sc"
  /\ UNCHANGED notPool
  /\ \/ /\ ReservationValid(t, pool[t])
        /\ top' = [top EXCEPT ![pool[t]] = node[t]]
        /\ resv' = store_conditional_ok(t, pool[t])
        /\ abs' = [abs EXCEPT ![pool[t]] = <<node[t]>> \o abs[pool[t]]]
        /\ hist' = [hist EXCEPT ![pool[t]] = <<node[t]>> \o @]
        /\ Finish(t)
     \/ /\ resv' = clear_load_link(t)
        /\ Goto(t, "push_ll")
        /\ UNCHANGED <<top, abs, hist, op, pool, node, ltop, lnext, val>>
  /\ UNCHANGED <<kind, cpu, next, stack, data, strong_count, held, payloadLive,
                 dtors, fresh, linRet,
                 ret>>

(* ---------------------------- Stack::pop ------------------------------- *)
PopLoadLink(t) ==
  /\ pc[t] = "pop_ll"
  /\ UNCHANGED notPool
  /\ ltop' = [ltop EXCEPT ![t] = top[pool[t]]]
  /\ resv' = load_link(t, pool[t])
  /\ IF top[pool[t]] = Null
       THEN /\ Goto(t, "pop_clear")
            /\ linRet' = [linRet EXCEPT ![t] = AbsPopResult(pool[t])]
            /\ abs' = AbsPop(pool[t])
       ELSE /\ Goto(t, "pop_next")
            /\ UNCHANGED <<linRet, abs>>
  /\ UNCHANGED <<kind, cpu, top, next, stack, data, strong_count, op, pool, node,
                 lnext, val, held, payloadLive, dtors, fresh, hist,
                 ret>>

\* faulty variant: pop forgets the successor of the node it removes
LoadNextNull(n) == Null

\* top.as_ref().next.load(Relaxed)
LoadNext(n) == next[n]

PopLoadNext(t) ==
  /\ pc[t] = "pop_next"
  /\ UNCHANGED notPool
  /\ lnext' = [lnext EXCEPT ![t] = LoadNext(ltop[t])]
  /\ Goto(t, "pop_sc")
  /\ UNCHANGED <<kind, cpu, top, next, stack, data, strong_count, op, pool, node,
                 ltop, val, resv, held, payloadLive, dtors, fresh, abs, linRet,
                 hist,
                 ret>>

PopStoreConditional(t) ==
  /\ pc[t] = "pop_sc"
  /\ UNCHANGED notPool
  /\ \/ /\ ReservationValid(t, pool[t])
        /\ top' = [top EXCEPT ![pool[t]] = lnext[t]]
        /\ resv' = store_conditional_ok(t, pool[t])
        /\ linRet' = [linRet EXCEPT ![t] = AbsPopResult(pool[t])]
        /\ abs' = AbsPop(pool[t])
        /\ Goto(t, "pop_ret")
     \/ /\ resv' = clear_load_link(t)
        /\ Goto(t, "pop_ll")
        /\ UNCHANGED <<top, abs, linRet>>
  /\ UNCHANGED <<kind, cpu, next, stack, data, strong_count, op, pool, node, ltop,
                 lnext, val, held, payloadLive, dtors, fresh, hist,
                 ret>>

PopClear(t) ==
  /\ pc[t] = "pop_clear"
  /\ UNCHANGED notPool
  /\ resv' = clear_load_link(t)
  /\ Goto(t, "pop_ret")
  /\ UNCHANGED <<kind, cpu, top, next, stack, data, strong_count, op, pool, node,
                 ltop, lnext, val, held, payloadLive, dtors, fresh, abs, linRet,
                 hist,
                 ret>>

(* ------------------ ObjectPool / BoxPool / ArcPool --------------------- *)
\* manage: set the back-pointer of a slot nobody manages yet, then push it
manage(t, p, s) ==
  /\ pc[t] = "idle"
  /\ UNCHANGED notPool
  /\ ret' = [ret EXCEPT ![t] = NoRet]
  /\ stack[s] = None
  /\ stack' = [stack EXCEPT ![s] = p]
  /\ op' = [op EXCEPT ![t] = "manage"]
  /\ pool' = [pool EXCEPT ![t] = p]
  /\ node' = [node EXCEPT ![t] = s]
  /\ Goto(t, "push_ll")
  /\ UNCHANGED <<kind, cpu, top, next, data, strong_count, ltop, lnext, val, resv,
                 held, payloadLive, dtors, fresh, abs, linRet, hist>>

\* request: starts with self.stack.pop()
request(t, p, v) ==
  /\ pc[t] = "idle"
  /\ UNCHANGED notPool
  /\ ret' = [ret EXCEPT ![t] = NoRet]
  /\ op' = [op EXCEPT ![t] = "request"]
  /\ pool' = [pool EXCEPT ![t] = p]
  /\ val' = [val EXCEPT ![t] = v]
  /\ Goto(t, "pop_ll")
  /\ UNCHANGED <<kind, cpu, top, next, stack, data, strong_count, node, ltop, lnext,
                 resv, held, payloadLive, dtors, fresh, abs, linRet, hist>>

AddHandle(t, s) == [held EXCEPT ![t][s] = @ + 1]

\* faulty variant: a rejected request hands back a default value
RequestErrDefault(k, v) == IF k = "object" THEN <<"None">> ELSE <<"Err", 1>>

\* what request returns when pop finds no slot: None (object pool),
\* Err(value) (box and arc pools)
RequestErr(k, v) == IF k = "object" THEN <<"None">> ELSE <<"Err", v>>

\* what request returns with slot s: Some(Object), Ok(Box), Ok(Arc)
RequestOk(k, s) == IF k = "object" THEN <<"Some", s>> ELSE <<"Ok", s>>

\* request, after pop has returned: None => Err(value) / None; Some(slot) =>
\* the handle (object), the payload write and the handle (box), the payload
\* write (arc, whose count is stored by the next step)
RequestAfterPop(t) ==
  /\ pc[t] = "pop_ret"
  /\ UNCHANGED notPool
  /\ linRet' = [linRet EXCEPT ![t] = Null]
  /\ IF ltop[t] = Null
       THEN /\ Finish(t)
            /\ ret' = [ret EXCEPT ![t] = RequestErr(kind, val[t])]
            /\ UNCHANGED <<data, held, payloadLive, dtors, fresh, hist>>
       ELSE /\ hist' = IF hist[pool[t]] = <<>> THEN hist
                    ELSE [hist EXCEPT ![pool[t]] = Tail(@)]
            /\ IF kind = "object"
                 THEN /\ held' = AddHandle(t, ltop[t])
                      /\ fresh' = [fresh EXCEPT ![ltop[t]] = FALSE]
                      /\ ret' = [ret EXCEPT ![t] = RequestOk(kind, ltop[t])]
                      /\ Finish(t)
                      /\ UNCHANGED <<data, payloadLive, dtors>>
                 ELSE /\ data' = [data EXCEPT ![ltop[t]] = val[t]]
                      /\ payloadLive' = [payloadLive EXCEPT ![ltop[t]] = TRUE]
                      /\ dtors' = [dtors EXCEPT ![ltop[t]] = 0]
                      /\ IF kind = "box"
                           THEN /\ held' = AddHandle(t, ltop[t])
                                /\ fresh' = [fresh EXCEPT ![ltop[t]] = FALSE]
                                /\ ret' = [ret EXCEPT ![t] =
                                                RequestOk(kind, ltop[t])]
                                /\ Finish(t)
                           ELSE /\ node' = [node EXCEPT ![t] = ltop[t]]
                                /\ Goto(t, "req_count")
                                /\ UNCHANGED <<held, fresh, op, pool, ltop,
                                               lnext, val, ret>>
  /\ UNCHANGED <<kind, cpu, top, next, stack, strong_count, resv, abs>>

\* ArcPool::request: slot.strong_count.store(1), then Ok(Arc { .. })
RequestStoreCount(t) ==
  /\ pc[t] = "req_count"
  /\ UNCHANGED notPool
  /\ strong_count' = [strong_count EXCEPT ![node[t]] = 1]
  /\ held' = AddHandle(t, node[t])
  /\ fresh' = [fresh EXCEPT ![node[t]] = FALSE]
  /\ ret' = [ret EXCEPT ![t] = RequestOk(kind, node[t])]
  /\ Finish(t)
  /\ UNCHANGED <<kind, cpu, top, next, stack, data, resv, payloadLive, dtors, abs,
                 linRet, hist>>

\* faulty variant: Object::drop runs the payload's destructor as Box::drop does
DropEntryObjectDestructs(k) == IF k = "arc" THEN "drop_sub" ELSE "drop_in_place"

\* faulty variant: Box::drop relinks the slot without drop_in_place
DropEntryNoDestructor(k) == IF k = "arc" THEN "drop_sub" ELSE "push_ll"

\* where Drop::drop goes once the back-pointer is known to be Some: Object
\* pushes at once, Box runs drop_in_place first, Arc decrements first
DropEntry(k) ==
  IF k = "object" THEN "push_ll"
  ELSE IF k = "box" THEN "drop_in_place"
  ELSE "drop_sub"

\* faulty variant: a drop that relinks every slot into the first pool
OwningStackFirst(s) == IF stack[s] = None THEN None ELSE 1

\* self.inner.stack: the back-pointer of slot s
OwningStack(s) == stack[s]

\* Drop::drop of a handle: `if let Some(stack) = self.inner.stack`, then the
\* pool's protocol; the None arm is unreachable!()
DropHandle(t, s) ==
  /\ pc[t] = "idle"
  /\ UNCHANGED notPool
  /\ ret' = [ret EXCEPT ![t] = NoRet]
  /\ held[t][s] > 0
  /\ held' = [held EXCEPT ![t][s] = @ - 1]
  /\ op' = [op EXCEPT ![t] = "drop"]
  /\ node' = [node EXCEPT ![t] = s]
  /\ pool' = [pool EXCEPT ![t] = OwningStack(s)]
  /\ Goto(t, IF OwningStack(s) = None THEN "unreachable" ELSE DropEntry(kind))
  /\ UNCHANGED <<kind, cpu, top, next, stack, data, strong_count, ltop, lnext, val,
                 resv, payloadLive, dtors, fresh, abs, linRet, hist>>

\* faulty variant: a clone that forgets to count itself
fetch_add_nothing(old) == old

fetch_add(old) == wrapping_add(old, 1)

\* faulty variant: a drop that gives up two references
fetch_sub_two(old) == wrapping_sub(old, 2)

fetch_sub(old) == wrapping_sub(old, 1)

\* faulty variant: a drop that compares the count with 0, as if fetch_sub
\* returned the new value
FetchSubSeesZero(old) == old = 0

\* faulty variant: every drop takes itself for the last one
FetchSubAlwaysLast(old) == TRUE

\* Arc::drop goes on to destroy and relink iff fetch_sub returned 1
FetchSubIsLast(old) == old = 1

\* Arc::drop: fetch_sub(1, Release) != 1 => return
DropFetchSub(t) ==
  /\ pc[t] = "drop_sub"
  /\ UNCHANGED notPool
  /\ strong_count' = [strong_count EXCEPT ![node[t]] = fetch_sub(@)]
  /\ IF ~FetchSubIsLast(strong_count[node[t]])
       THEN Finish(t)
       ELSE /\ Goto(t, "drop_in_place")
            /\ UNCHANGED <<op, pool, node, ltop, lnext, val>>
  /\ UNCHANGED <<kind, cpu, top, next, stack, data, resv, held, payloadLive, dtors,
                 fresh, abs, linRet, hist,
                 ret>>

\* Box::drop / Arc::drop: drop_in_place(data), then stack.push(owning_ptr)
DropInPlace(t) ==
  /\ pc[t] = "drop_in_place"
  /\ UNCHANGED notPool
  /\ payloadLive' = [payloadLive EXCEPT ![node[t]] = FALSE]
  /\ dtors' = [dtors EXCEPT ![node[t]] = Min(@ + 1, 2)]
  /\ Goto(t, "push_ll")
  /\ UNCHANGED <<kind, cpu, top, next, stack, data, strong_count, op, pool, node,
                 ltop, lnext, val, resv, held, fresh, abs, linRet, hist,
                 ret>>

\* Arc::clone through a live handle of slot s: fetch_add(1, Relaxed), then
\* assert!(old_count <= MAX_REFCOUNT)
clone(t, s) ==
  /\ pc[t] = "idle"
  /\ UNCHANGED notPool
  /\ ret' = [ret EXCEPT ![t] = NoRet]
  /\ kind = "arc"
  /\ \E u \in Threads : held[u][s] > 0
  /\ Held(s) < MaxHandles
  /\ strong_count' = [strong_count EXCEPT ![s] = fetch_add(@)]
  /\ IF strong_count[s] <= MAX_REFCOUNT
       THEN held' = AddHandle(t, s) /\ UNCHANGED pc
       ELSE Goto(t, "panicked") /\ UNCHANGED held
  /\ UNCHANGED <<kind, cpu, top, next, stack, data, op, pool, node, ltop, lnext,
                 val, resv, payloadLive, dtors, fresh, abs, linRet, hist>>

\* DerefMut of an Object or Box handle: the owner overwrites the payload
deref_mut(t, s, v) ==
  /\ pc[t] = "idle"
  /\ UNCHANGED notPool
  /\ ret' = [ret EXCEPT ![t] = NoRet]
  /\ kind # "arc"
  /\ held[t][s] > 0
  /\ data' = [data EXCEPT ![s] = v]
  /\ UNCHANGED <<kind, cpu, top, next, stack, strong_count, pc, op, pool, node,
                 ltop, lnext, val, resv, held, payloadLive, dtors, fresh, abs,
                 linRet, hist>>

Start(t) ==
  \/ \E p \in Pools, s \in Slots : manage(t, p, s)
  \/ \E p \in Pools, v \in (IF kind = "object" THEN {Uninit} ELSE Values) :
       request(t, p, v)
  \/ \E s \in Slots : DropHandle(t, s)
  \/ \E s \in Slots : clone(t, s)
  \/ \E s \in Slots, v \in Values : deref_mut(t, s, v)

Step(t) ==
  \/ PushLoadLink(t)
  \/ PushStoreNext(t)
  \/ PushStoreConditional(t)
  \/ PopLoadLink(t)
  \/ PopLoadNext(t)
  \/ PopStoreConditional(t)
  \/ PopClear(t)
  \/ RequestAfterPop(t)
  \/ RequestStoreCount(t)
  \/ DropFetchSub(t)
  \/ DropInPlace(t)

\* the pools alone: no channel exists
Init == PoolInit /\ ChanNone /\ WrapNone /\ VecNone

Next == \E t \in Threads : Start(t) \/ Step(t)

\* any number of threads, interleaved at every shared-memory access
Spec == Init /\ [][Next]_vars

AllIdle == \A t \in Threads : pc[t] = "idle"

SeqStart(t) ==
  \/ \E p \in Pools, s \in Slots : AllIdle /\ manage(t, p, s)
  \/ \E p \in Pools, v \in (IF kind = "object" THEN {Uninit} ELSE Values) :
       AllIdle /\ request(t, p, v)
  \/ \E s \in Slots : AllIdle /\ DropHandle(t, s)
  \/ \E s \in Slots : AllIdle /\ clone(t, s)
  \/ \E s \in Slots, v \in Values : AllIdle /\ deref_mut(t, s, v)

SeqNext == \E t \in Threads : SeqStart(t) \/ Step(t)

\* operations never overlap: one is started only when none is in progress
SpecSeq == Init /\ [][SeqNext]_vars

(* ---------------- one core: a thread and its interrupt ----------------- *)
\* context t has the core: no context of higher priority is in the middle of
\* an operation (an interrupt handler runs to completion)
Runs(t) == \A u \in Threads : u > t => pc[u] = "idle"

\* the operations a context starts; the payload requested is always the same
\* value, and nobody writes through a handle
PreemptStart(t) ==
  \/ \E p \in AllPools, s \in Slots : Runs(t) /\ manage(t, p, s)
  \/ \E p \in AllPools, v \in (IF kind = "object" THEN {Uninit} ELSE {1}) :
       Runs(t) /\ request(t, p, v)
  \/ \E s \in Slots : Runs(t) /\ DropHandle(t, s)
  \/ \E s \in Slots : Runs(t) /\ clone(t, s)

PreemptStep(t) ==
  \/ Runs(t) /\ PushLoadLink(t)
  \/ Runs(t) /\ PushStoreNext(t)
  \/ Runs(t) /\ PushStoreConditional(t)
  \/ Runs(t) /\ PopLoadLink(t)
  \/ Runs(t) /\ PopLoadNext(t)
  \/ Runs(t) /\ PopStoreConditional(t)
  \/ Runs(t) /\ PopClear(t)
  \/ Runs(t) /\ RequestAfterPop(t)
  \/ Runs(t) /\ RequestStoreCount(t)
  \/ Runs(t) /\ DropFetchSub(t)
  \/ Runs(t) /\ DropInPlace(t)

InitPreempt == PoolNew /\ cpu = OneCore /\ ChanNone /\ WrapNone /\ VecNone

NextPreempt == \E t \in Threads : PreemptStart(t) \/ PreemptStep(t)

\* several pools used from thread mode and from an interrupt handler that
\* preempts it at any instruction: both share the core's exclusive monitor
SpecPreempt == InitPreempt /\ [][NextPreempt]_vars

(* --------------- STREX that fails only after a write ------------------- *)
\* the store_conditional thread t executes in this step does not fail while
\* its reservation stands
NotSpurious(t) ==
  pc'[t] \in {"push_ll", "pop_ll"} => ~ReservationValid(t, pool[t])

\* the steps of Stack::push and Stack::pop
StackStep(t) ==
  \/ PushLoadLink(t)
  \/ PushStoreNext(t)
  \/ PushStoreConditional(t) /\ NotSpurious(t)
  \/ PopLoadLink(t)
  \/ PopLoadNext(t)
  \/ PopStoreConditional(t) /\ NotSpurious(t)
  \/ PopClear(t)

LiveStep(t) ==
  \/ StackStep(t)
  \/ RequestAfterPop(t)
  \/ RequestStoreCount(t)
  \/ DropFetchSub(t)
  \/ DropInPlace(t)

NextLive == \E t \in Threads : Start(t) \/ LiveStep(t)

\* the threads of Spec on a monitor without spurious failures; the scheduler
\* does not stop every thread that is inside a push or a pop
SpecLive ==
  Init /\ [][NextLive]_vars /\ WF_vars(\E t \in Threads : StackStep(t))

(* ------------------- arc pool with leaked handles ---------------------- *)
\* core::mem::forget of an Arc: the handle goes away without Arc::drop, so the
\* strong count keeps counting it
forget(t, s) ==
  /\ pc[t] = "idle"
  /\ UNCHANGED notPool
  /\ kind = "arc"
  /\ held[t][s] > 0
  /\ held' = [held EXCEPT ![t][s] = @ - 1]
  /\ ret' = [ret EXCEPT ![t] = NoRet]
  /\ UNCHANGED <<kind, cpu, top, next, stack, data, strong_count, pc, op, pool,
                 node, ltop, lnext, val, resv, payloadLive, dtors, fresh, abs,
                 linRet, hist>>

LeakStart(t) ==
  \/ \E p \in Pools, s \in Slots : AllIdle /\ manage(t, p, s)
  \/ \E p \in Pools, v \in Values : AllIdle /\ request(t, p, v)
  \/ \E s \in Slots : AllIdle /\ DropHandle(t, s)
  \/ \E s \in Slots : AllIdle /\ clone(t, s)
  \/ \E s \in Slots : AllIdle /\ forget(t, s)

InitLeak == Init /\ kind = "arc"

NextLeak == \E t \in Threads : LeakStart(t) \/ Step(t)

\* an arc pool whose users may also forget handles; operations do not overlap
SpecLeak == InitLeak /\ [][NextLeak]_vars

(* ============================ spsc.rs ================================= *)
MaxCapacity == 3

\* faulty variant: a full test that lets one value too many in
SendFullOffByOne(cw, ar, cap) == wrapping_sub(cw, ar) = cap + 1

\* faulty variant: a send that takes every channel for full
SendFullAlways(cw, ar, cap) == TRUE

\* send: current_write.wrapping_sub(acquired_read) == capacity
SendFull(cw, ar, cap) == wrapping_sub(cw, ar) = cap

\* faulty variant: a recv that never takes the channel for empty
RecvEmptyNever(cr, aw) == FALSE

\* the one value whose way through the channel is tracked
Marked == 2

\* recv: current_read == acquired_write
RecvEmpty(cr, aw) == cr = aw

\* the cell a cursor selects: cursor % capacity
SlotIndex(c, cap) == c % cap

\* slot.get().cast::<T>().read(): the bits of the cell; those of a cell never
\* written are arbitrary
CellBits(b, i) == IF b[i] = Uninit THEN Values ELSE {b[i]}

poolOff ==
  /\ kind = "object"
  /\ cpu = OneCoreEach
  /\ top = [p \in AllPools |-> Null]
  /\ next = [s \in Slots |-> Null]
  /\ stack = [s \in Slots |-> None]
  /\ data = [s \in Slots |-> 1]
  /\ strong_count = [s \in Slots |-> 0]
  /\ pc = [t \in Threads |-> "idle"]
  /\ op = [t \in Threads |-> "none"]
  /\ pool = [t \in Threads |-> 0]
  /\ node = [t \in Threads |-> Null]
  /\ ltop = [t \in Threads |-> Null]
  /\ lnext = [t \in Threads |-> Null]
  /\ val = [t \in Threads |-> Uninit]
  /\ resv = [t \in Threads |-> NoResv]
  /\ held = [t \in Threads |-> [s \in Slots |-> 0]]
  /\ payloadLive = [s \in Slots |-> TRUE]
  /\ dtors = [s \in Slots |-> 0]
  /\ fresh = [s \in Slots |-> TRUE]
  /\ abs = [p \in AllPools |-> <<>>]
  /\ linRet = [t \in Threads |-> Null]
  /\ hist = [p \in AllPools |-> <<>>]
  /\ ret = [t \in Threads |-> NoRet]

\* Channel::new for N in 1 .. MaxCapacity, then split
ChanInit ==
  /\ capacity \in 1 .. MaxCapacity
  /\ read = 0 /\ write = 0
  /\ buf = [i \in 0 .. capacity - 1 |-> Uninit]
  /\ s_pc = "idle" /\ current_write = 0 /\ acquired_read = 0
  /\ value = Uninit /\ send_ret = <<"none">>
  /\ r_pc = "idle" /\ current_read = 0 /\ acquired_write = 0
  /\ slot_value = Uninit /\ recv_ret = <<"none">>
  /\ cellLive = [i \in 0 .. capacity - 1 |-> FALSE]
  /\ pending = <<>> /\ expect = Uninit /\ marked = "none"

notChan == <<poolVars, wrapVars, vecVars>>

\* send(value): self.write.load(Relaxed)
SendLoadWrite(v) ==
  /\ s_pc = "idle"
  /\ current_write' = write
  /\ value' = v
  /\ send_ret' = <<"none">>
  /\ s_pc' = "load_read"
  /\ UNCHANGED <<capacity, marked, read, write, buf, acquired_read, r_pc, current_read,
                 acquired_write, slot_value, recv_ret, cellLive, pending, expect>>
  /\ UNCHANGED notChan

\* self.read.load(Acquire); full => return Err(value)
SendLoadRead ==
  /\ s_pc = "load_read"
  /\ acquired_read' = read
  /\ IF SendFull(current_write, read, capacity)
       THEN /\ send_ret' = <<"Err", value>>
            /\ s_pc' = "idle"
            /\ value' = Uninit
       ELSE /\ s_pc' = "write_slot"
            /\ UNCHANGED <<send_ret, value>>
  /\ UNCHANGED <<capacity, marked, read, write, buf, current_write, r_pc, current_read,
                 acquired_write, slot_value, recv_ret, cellLive, pending, expect>>
  /\ UNCHANGED notChan

\* slot.get().cast::<T>().write(value)
SendWriteSlot ==
  /\ s_pc = "write_slot"
  /\ buf' = [buf EXCEPT ![SlotIndex(current_write, capacity)] = value]
  /\ cellLive' = [cellLive EXCEPT ![SlotIndex(current_write, capacity)] = TRUE]
  /\ s_pc' = "store_write"
  /\ UNCHANGED <<capacity, marked, read, write, current_write, acquired_read, value,
                 send_ret, r_pc, current_read, acquired_write, slot_value,
                 recv_ret, pending, expect>>
  /\ UNCHANGED notChan

\* faulty variant: the write cursor kept reduced modulo the capacity
SendStoreWriteReduced ==
  /\ s_pc = "store_write"
  /\ write' = SlotIndex(wrapping_add(current_write, 1), capacity)
  /\ send_ret' = <<"Ok">>
  /\ pending' = Append(pending, value)
  /\ s_pc' = "idle"
  /\ value' = Uninit
  /\ marked' = IF value = Marked /\ marked = "none" THEN "sent" ELSE marked
  /\ UNCHANGED <<capacity, read, buf, current_write, acquired_read, r_pc,
                 current_read, acquired_write, slot_value, recv_ret, cellLive,
                 expect>>
  /\ UNCHANGED notChan

\* self.write.store(current_write.wrapping_add(1), Release); Ok(())
SendStoreWrite ==
  /\ s_pc = "store_write"
  /\ write' = wrapping_add(current_write, 1)
  /\ send_ret' = <<"Ok">>
  /\ pending' = Append(pending, value)
  /\ s_pc' = "idle"
  /\ value' = Uninit
  /\ marked' = IF value = Marked /\ marked = "none" THEN "sent" ELSE marked
  /\ UNCHANGED <<capacity, read, buf, current_write, acquired_read, r_pc,
                 current_read, acquired_write, slot_value, recv_ret, cellLive,
                 expect>>
  /\ UNCHANGED notChan

\* recv(): self.read.load(Relaxed)
RecvLoadRead ==
  /\ r_pc = "idle"
  /\ current_read' = read
  /\ recv_ret' = <<"none">>
  /\ expect' = Uninit
  /\ r_pc' = "load_write"
  /\ UNCHANGED <<capacity, marked, read, write, buf, s_pc, current_write, acquired_read,
                 value, send_ret, acquired_write, slot_value, cellLive, pending>>
  /\ UNCHANGED notChan

\* self.write.load(Acquire); empty => return None
RecvLoadWrite ==
  /\ r_pc = "load_write"
  /\ acquired_write' = write
  /\ IF RecvEmpty(current_read, write)
       THEN recv_ret' = <<"None">> /\ r_pc' = "idle"
       ELSE r_pc' = "read_slot" /\ UNCHANGED recv_ret
  /\ UNCHANGED <<capacity, marked, read, write, buf, s_pc, current_write, acquired_read,
                 value, send_ret, current_read, slot_value, cellLive, pending,
                 expect>>
  /\ UNCHANGED notChan

\* slot.get().cast::<T>().read(): the value is moved out, the bits stay
RecvReadSlot ==
  /\ r_pc = "read_slot"
  /\ slot_value' \in CellBits(buf, SlotIndex(current_read, capacity))
  /\ cellLive' = [cellLive EXCEPT ![SlotIndex(current_read, capacity)] = FALSE]
  /\ r_pc' = "store_read"
  /\ UNCHANGED <<capacity, marked, read, write, buf, s_pc, current_write, acquired_read,
                 value, send_ret, current_read, acquired_write, recv_ret,
                 pending, expect>>
  /\ UNCHANGED notChan

\* self.read.store(current_read.wrapping_add(1), Release); Some(value)
RecvStoreRead ==
  /\ r_pc = "store_read"
  /\ read' = wrapping_add(current_read, 1)
  /\ recv_ret' = <<"Some", slot_value>>
  /\ expect' = IF pending = <<>> THEN Uninit ELSE Head(pending)
  /\ pending' = IF pending = <<>> THEN pending ELSE Tail(pending)
  /\ slot_value' = Uninit
  /\ r_pc' = "idle"
  /\ marked' = IF slot_value = Marked /\ marked = "sent" THEN "returned" ELSE marked
  /\ UNCHANGED <<capacity, write, buf, s_pc, current_write, acquired_read,
                 value, send_ret, current_read, acquired_write, cellLive>>
  /\ UNCHANGED notChan

InitChan == poolOff /\ ChanInit /\ WrapNone /\ VecNone

NextChan ==
  \/ \E v \in Values : SendLoadWrite(v)
  \/ SendLoadRead
  \/ SendWriteSlot
  \/ SendStoreWrite
  \/ RecvLoadRead
  \/ RecvLoadWrite
  \/ RecvReadSlot
  \/ RecvStoreRead

\* one sender and one receiver, interleaved at every cursor and cell access
SpecChan == InitChan /\ [][NextChan]_vars

\* a sender that calls send again and again, retrying a rejected value; it
\* sends the value Marked once and the other value otherwise
SendSide ==
  \/ \E v \in Values \ {Marked} : SendLoadWrite(v)
  \/ marked = "none" /\ SendLoadWrite(Marked)
  \/ SendLoadRead
  \/ SendWriteSlot
  \/ SendStoreWrite

\* a receiver that calls recv again and again
RecvSide ==
  \/ RecvLoadRead
  \/ RecvLoadWrite
  \/ RecvReadSlot
  \/ RecvStoreRead

NextChanLive == SendSide \/ RecvSide

\* both sides weakly fair: neither stops for ever in the middle of a call or
\* between two calls
SpecChanLive ==
  InitChan /\ [][NextChanLive]_vars /\ WF_vars(SendSide) /\ WF_vars(RecvSide)

(* ------------- send and recv as whole calls, on a record --------------- *)
MaxOps == 8

NewChannel(n, c) ==
  [capacity |-> n, read |-> c, write |-> c, buf |-> [i \in 0 .. n - 1 |-> Uninit]]

\* Inner::send run without interruption
send(ch, v) ==
  IF SendFull(ch.write, ch.read, ch.capacity)
    THEN [ch |-> ch, res |-> <<"Err", v>>]
    ELSE [ch |-> [ch EXCEPT !.buf[SlotIndex(ch.write, ch.capacity)] = v,
                            !.write = wrapping_add(ch.write, 1)],
          res |-> <<"Ok">>]

\* Inner::recv run without interruption: the outcomes it can have
recv(ch) ==
  IF RecvEmpty(ch.read, ch.write)
    THEN {[ch |-> ch, res |-> <<"None">>]}
    ELSE {[ch |-> [ch EXCEPT !.read = wrapping_add(ch.read, 1)],
           res |-> <<"Some", x>>] :
            x \in CellBits(ch.buf, SlotIndex(ch.read, ch.capacity))}

\* two channels of one capacity: the cursors of wch preset to a common value
\* (as tests::cursor_wrap_around does), those of zch left at 0
WrapInit ==
  /\ \E n \in 1 .. MaxCapacity, c \in 0 .. Word - 1 :
       wch = NewChannel(n, c) /\ zch = NewChannel(n, 0)
  /\ wres = <<"none">> /\ zres = <<"none">>
  /\ nops = 0

notWrap == <<poolVars, chanVars, vecVars>>

\* the same send on both channels
WrapSend(v) ==
  /\ nops < MaxOps
  /\ wch' = send(wch, v).ch /\ wres' = send(wch, v).res
  /\ zch' = send(zch, v).ch /\ zres' = send(zch, v).res
  /\ nops' = nops + 1
  /\ UNCHANGED notWrap

\* the same recv on both channels
WrapRecv ==
  /\ nops < MaxOps
  /\ \E w \in recv(wch), z \in recv(zch) :
       /\ wch' = w.ch /\ wres' = w.res
       /\ zch' = z.ch /\ zres' = z.res
  /\ nops' = nops + 1
  /\ UNCHANGED notWrap

InitWrap == poolOff /\ ChanNone /\ WrapInit /\ VecNone

NextWrap == (\E v \in Values : WrapSend(v)) \/ WrapRecv

\* one thread calling send and recv in any order on both channels
SpecWrap == InitWrap /\ [][NextWrap]_vars

(* ============================ vec/mod.rs =============================== *)
VecMaxBytes == 8
VecMaxSize == 3

\* the adjustment capacity and aligned_storage_ptr compute: align is
\* mem::size_of::<T>(), offset is addr % align
VecAdj ==
  LET align == v_size
      offset == v_addr % align
  IN  IF offset = 0 THEN 0 ELSE align - offset

\* faulty variant: a capacity that forgets the adjustment
VecCapacityUnadjusted == Len(v_storage) \div v_size

\* Vec::capacity: len.checked_sub(adj), then available / size_of::<T>()
VecCapacity ==
  IF Len(v_storage) < VecAdj THEN 0
  ELSE (Len(v_storage) - VecAdj) \div v_size

\* byte offset in storage of element i (from 0): aligned_storage_ptr().add(i)
VecSlot(i) == VecAdj + i * v_size

\* the bytes of one T at byte offset o lie inside storage
VecInBounds(o) == o + v_size <= Len(v_storage)

\* slot.write(element): the bytes of storage the element covers
VecWrite(o, e) ==
  [i \in DOMAIN v_storage |->
     IF i - 1 \in o .. o + v_size - 1 THEN e ELSE v_storage[i]]

\* ptr.read(): the element whose bytes are all there; anything otherwise
VecRead(o) ==
  LET whole == {e \in Values : \A i \in o .. o + v_size - 1 : v_storage[i + 1] = e}
  IN  IF VecInBounds(o) /\ whole # {} THEN whole ELSE Values

\* Deref: slice::from_raw_parts(aligned_storage_ptr(), len), where every
\* element is whole
VecSlice ==
  [i \in 1 .. v_len |->
     IF VecInBounds(VecSlot(i - 1)) /\ Cardinality(VecRead(VecSlot(i - 1))) = 1
       THEN CHOOSE e \in VecRead(VecSlot(i - 1)) : TRUE
       ELSE Uninit]

\* Vec::new over a buffer of any length at any address, for any size of T
VecInit ==
  /\ v_size \in 1 .. VecMaxSize
  /\ v_addr \in 0 .. VecMaxSize - 1
  /\ \E n \in 0 .. VecMaxBytes : v_storage = [i \in 1 .. n |-> Uninit]
  /\ v_len = 0
  /\ v_arg = Uninit /\ v_ret = <<"none">> /\ v_ub = FALSE /\ v_elems = <<>>

notVec == <<poolVars, chanVars, wrapVars>>

\* Vec::push(element)
VecPush(element) ==
  /\ UNCHANGED notVec
  /\ UNCHANGED <<v_addr, v_size>>
  /\ v_arg' = element
  /\ IF v_len = VecCapacity
       THEN /\ v_ret' = <<"Err", element>>
            /\ UNCHANGED <<v_storage, v_len, v_ub, v_elems>>
       ELSE /\ v_storage' = VecWrite(VecSlot(v_len), element)
            /\ v_ub' = (v_ub \/ ~VecInBounds(VecSlot(v_len)))
            /\ v_len' = v_len + 1
            /\ v_ret' = <<"Ok">>
            /\ v_elems' = Append(v_elems, element)

\* Vec::pop()
VecPop ==
  /\ UNCHANGED notVec
  /\ UNCHANGED <<v_addr, v_size, v_storage>>
  /\ v_arg' = Uninit
  /\ IF v_len = 0
       THEN /\ v_ret' = <<"None">>
            /\ UNCHANGED <<v_len, v_ub, v_elems>>
       ELSE /\ \E x \in VecRead(VecSlot(v_len - 1)) : v_ret' = <<"Some", x>>
            /\ v_ub' = (v_ub \/ ~VecInBounds(VecSlot(v_len - 1)))
            /\ v_len' = v_len - 1
            /\ v_elems' = IF v_elems = <<>> THEN v_elems
                          ELSE SubSeq(v_elems, 1, Len(v_elems) - 1)

InitVec == poolOff /\ ChanNone /\ WrapNone /\ VecInit

NextVec == (\E e \in Values : VecPush(e)) \/ VecPop

\* one owner calling push and pop in any order
SpecVec == InitVec /\ [][NextVec]_vars

(* ====================== properties of the channel ====================== *)
\* C4: the values recv returns are, in order, the values send accepted: each
\* successful recv returns the oldest accepted value not received before.
C4_FifoPrefix == recv_ret[1] = "Some" => recv_ret[2] = expect

\* C5: whatever common value the cursors were preset to, every send and recv
\* returns what it returns on the channel whose cursors started at 0.
C5_WrapSameAsZero == wres = zres

\* C6: write.wrapping_sub(read) never exceeds the capacity.
C6_LenInRange == wrapping_sub(write, read) \in 0 .. capacity

\* the channel is full with the write cursor wrapped and the read cursor not
C6_Witness == write < read /\ wrapping_sub(write, read) = capacity /\ capacity > 1

(* ======================= properties of the pools ======================= *)
Linked(s) == \E p \in AllPools : s \in SeqToSet(Chain(p))

\* thread t holds the one owning pointer of slot s: between a pop's
\* successful store_conditional and the handle, and between the start of a
\* manage or of a (last) drop and its push's successful store_conditional
Owning(t, s) ==
  \/ pc[t] = "pop_ret" /\ ltop[t] = s
  \/ pc[t] = "req_count" /\ node[t] = s
  \/ /\ pc[t] \in {"push_ll", "push_next", "push_sc", "drop_in_place"}
     /\ node[t] = s

Owners(s) == Cardinality({t \in Threads : Owning(t, s)})

\* Arc handles of slot s: held, or in a drop that has not decremented yet
Handles(s) == Held(s) + Cardinality({t \in Threads : pc[t] = "drop_sub" /\ node[t] = s})

\* C1: every execution is linearisable: the concrete stack is the sequential
\* LIFO stack that takes each operation's effect at its successful
\* store_conditional (at the load_link of a null top for a pop returning
\* None), and every pop returns what that sequential stack returned.
C1_Linearisable ==
  /\ \A p \in Pools : Chain(p) = abs[p]
  /\ \A t \in Threads : pc[t] = "pop_ret" => ltop[t] = linRet[t]

\* a pop has returned a node while the other thread's store_conditional is
\* bound to fail, its reservation having been lost to the pop
C1_Witness ==
  \E t, u \in Threads :
    /\ pc[t] = "pop_ret" /\ ltop[t] # Null
    /\ pc[u] \in {"pop_sc", "push_sc"} /\ resv[u] = NoResv

\* C2: no slot has two unique owners (handles or owning pointers), an arc
\* slot is never handed out by a request while Arc handles of an earlier
\* request are live, and a slot linked in a stack has no handle at all.
C2_NoSharedSlot ==
  \A s \in Slots :
    /\ Owners(s) + (IF kind = "arc" THEN 0 ELSE Held(s)) <= 1
    /\ Owners(s) > 0 => Handles(s) = 0
    /\ Linked(s) => Owners(s) = 0 /\ Handles(s) = 0

\* both threads are in request at once and one of them has obtained a slot
C2_Witness ==
  \E t, u \in Threads :
    /\ t # u /\ op[t] = "request" /\ op[u] = "request"
    /\ pc[t] = "pop_ret" /\ ltop[t] # Null
    /\ pc[u] = "pop_sc" /\ ltop[u] = ltop[t]

HistTop(p) == IF hist[p] = <<>> THEN Null ELSE Head(hist[p])

\* C3: when operations do not overlap, pop returns the node pushed last
\* among those not popped yet, pop on an empty stack returns None and leaves
\* it empty, and between operations the stack holds exactly the nodes pushed
\* and not popped.
C3_SequentialLifo ==
  /\ \A t \in Threads :
       pc[t] = "pop_ret" =>
         /\ ltop[t] = HistTop(pool[t])
         /\ ltop[t] = Null => top[pool[t]] = Null
  /\ AllIdle => \A p \in Pools : Chain(p) = hist[p]

\* a pop has returned the second of two nodes pushed, the first stays linked
C3_Witness ==
  \E t \in Threads :
    /\ pc[t] = "pop_ret" /\ ltop[t] # Null
    /\ Len(hist[pool[t]]) = 2
    /\ top[pool[t]] = hist[pool[t]][2]

\* C7 as claimed: in an arc pool the strong count of every slot, whatever its
\* state, is the number of live Arc handles of the slot.
C7_CountIsHandles ==
  kind = "arc" => \A s \in Slots : strong_count[s] = Handles(s)

\* C7 as amended: the strong count of a slot that a request has handed out at
\* least once is the number of its live Arc handles; a slot no request has
\* handed out yet has the strong count 1 of Slot::new and no handle.
C7_CountIsHandlesOnceRequested ==
  kind = "arc" =>
    \A s \in Slots :
      IF fresh[s] THEN strong_count[s] = 1 /\ Handles(s) = 0
      ELSE strong_count[s] = Handles(s)

\* one slot has two handles, one of them in a drop that has not decremented
\* yet, while the other slot, recycled, is linked with a strong count of 0
C7_Witness ==
  /\ kind = "arc"
  /\ \E s, r \in Slots :
       /\ ~fresh[s] /\ strong_count[s] = 2 /\ Held(s) = 1
       /\ \E t \in Threads : pc[t] = "drop_sub" /\ node[t] = s
       /\ ~fresh[r] /\ strong_count[r] = 0 /\ Linked(r)

\* C8: the payload of an arc checkout is not destructed while a handle of it
\* is live; once every handle is dropped (no handle left, no drop still in
\* progress) exactly one destructor has run and the slot is linked in its
\* pool again.
C8_LastDropDestroys ==
  kind = "arc" =>
    \A s \in Slots :
      /\ Handles(s) > 0 => dtors[s] = 0 /\ payloadLive[s]
      /\ (~fresh[s] /\ Handles(s) = 0 /\ Owners(s) = 0) =>
           /\ dtors[s] = 1 /\ ~payloadLive[s]
           /\ stack[s] # None /\ s \in SeqToSet(Chain(stack[s]))

\* a handle and its clone are dropped by two threads at once; the one that
\* read 1 is pushing the destructed slot, the other has returned
C8_Witness ==
  /\ kind = "arc"
  /\ \E s \in Slots, t \in Threads :
       /\ op[t] = "drop" /\ pc[t] = "push_sc" /\ node[t] = s
       /\ strong_count[s] = 0 /\ dtors[s] = 1
       /\ \E r \in Slots \ {s} : ~fresh[r] /\ Handles(r) = 0 /\ Linked(r)

FreeSlots == SumOver([p \in Pools |-> Len(Chain(p))], Pools)

BoxDropReturns(t) ==
  kind = "box" /\ op[t] = "drop" /\ pc[t] = "push_sc" /\ pc'[t] = "idle"

\* C9: the step that completes the drop of a Box leaves the slot's
\* destructor run exactly once and the pool with exactly one more free slot;
\* the destructor never runs while the Box is held and never twice for a
\* checkout.
C9_BoxDropOnce ==
  /\ [](kind = "box" =>
          \A s \in Slots : dtors[s] <= 1 /\ (Held(s) > 0 => dtors[s] = 0))
  /\ [][\A t \in Threads :
          BoxDropReturns(t) =>
            /\ dtors'[node[t]] = 1
            /\ FreeSlots' = FreeSlots + 1]_vars

\* a Box has been dropped and relinked while the other Box is still held
C9_Witness ==
  /\ kind = "box"
  /\ \E s, r \in Slots :
       /\ ~fresh[s] /\ Linked(s) /\ dtors[s] = 1
       /\ Held(r) = 1 /\ dtors[r] = 0

\* slots whose manage has returned
Managed == {s \in Slots : stack[s] # None /\ ~\E t \in Threads : op[t] = "manage" /\ node[t] = s}

\* Object handles outstanding: held, returned by a pop and about to be
\* wrapped, or in a drop whose push has not succeeded yet
Outstanding ==
  SumOver([s \in Slots |-> Held(s)], Slots)
  + Cardinality({t \in Threads : op[t] = "drop"})
  + Cardinality({t \in Threads : pc[t] = "pop_ret" /\ ltop[t] # Null})


\* C10: in an object pool, outstanding handles plus linked slots is the
\* number of slots managed.
C10_HandlesPlusFree ==
  kind = "object" => Outstanding + FreeSlots = Cardinality(Managed)

\* two slots managed, one handed out, the other being popped while the first
\* one's drop is in progress
C10_Witness ==
  /\ kind = "object" /\ Cardinality(Managed) = 2
  /\ \E t, u \in Threads :
       /\ op[t] = "drop" /\ pc[t] = "push_sc"
       /\ op[u] = "request" /\ pc[u] = "pop_ret" /\ ltop[u] # Null

\* a step of thread t that writes the payload of slot s through a live handle
WritesThroughHandle(t, s) == pc[t] = "idle" /\ pc'[t] = "idle" /\ held[t][s] > 0

\* C11: dropping an Object relinks its slot without running the payload's
\* destructor and without changing the payload: in an object pool no
\* destructor ever runs, every payload stays initialised, and a payload
\* changes only in a write through a live handle of its slot, so the next
\* request that obtains the slot observes the value last written.
C11_ObjectDropKeepsPayload ==
  /\ [](kind = "object" =>
          \A s \in Slots : dtors[s] = 0 /\ payloadLive[s] /\ data[s] \in Values)
  /\ [][kind = "object" =>
          \A s \in Slots :
            data'[s] # data[s] => \E t \in Threads : WritesThroughHandle(t, s)]_vars

\* a request has obtained again a slot whose earlier handle was dropped, and
\* the slot holds a value while the other slot holds the other value
C11_Witness ==
  /\ kind = "object"
  /\ \E t \in Threads, s, r \in Slots :
       /\ op[t] = "request" /\ pc[t] = "pop_ret" /\ ltop[t] = s
       /\ ~fresh[s] /\ data[s] = 2 /\ data[r] = 1

\* thread t takes a step of the request it is executing
RequestStep(t) == op[t] = "request" /\ pc'[t] # pc[t]

\* the request of thread t has not obtained a slot: it is before a successful
\* store_conditional of its pop, or its pop has returned None
NoSlotYet(t) ==
  \/ pc[t] \in {"pop_ll", "pop_next", "pop_clear"}
  \/ pc[t] = "pop_sc" /\ pc'[t] = "pop_ll"
  \/ pc[t] = "pop_ret" /\ ltop[t] = Null

\* C12: a request that finds no free slot returns Err with exactly the value
\* passed in (box and arc pools) or None (object pool), and none of its steps
\* changes the stack top, a link, a payload, a strong count or a back-pointer,
\* or runs a destructor; Err and None are returned in no other case.
C12_RejectedRequest ==
  [][\A t \in Threads :
       /\ RequestStep(t) =>
            /\ pc'[t] # "idle" => val'[t] = val[t]
            /\ (pc[t] = "pop_ret" /\ ltop[t] = Null) =>
                  /\ ret'[t] = IF kind = "object" THEN <<"None">>
                                ELSE <<"Err", val[t]>>
                  /\ held' = held
            /\ NoSlotYet(t) =>
                  UNCHANGED <<top, next, data, strong_count, stack, dtors,
                              payloadLive>>
       /\ (ret'[t] # ret[t] /\ ret'[t][1] \in {"Err", "None"}) =>
            op[t] = "request" /\ pc[t] = "pop_ret" /\ ltop[t] = Null]_vars

\* every slot of an arc pool is checked out with the payload 1, and a request
\* passing the value 2 has been rejected
C12_Witness ==
  /\ kind = "arc"
  /\ \E t \in Threads : ret[t] = <<"Err", 2>>
  /\ \A s \in Slots : Held(s) > 0 /\ data[s] = 1 /\ strong_count[s] > 0

\* slots checked out: some handle of the slot is live
CheckedOut == {s \in Slots : Held(s) > 0}

\* C13: when operations do not overlap, a request obtains a slot if and only
\* if fewer slots are checked out than are managed; every managed slot whose
\* handles are all dropped is linked again, so a later request obtains it; and
\* the handle a box or arc request returns dereferences to the value that
\* request was given.
C13_RequestIffFree ==
  /\ [](\A t \in Threads :
          /\ (op[t] = "request" /\ pc[t] = "pop_ret") =>
               (ltop[t] # Null <=>
                  Cardinality(CheckedOut) < Cardinality(Managed))
          /\ (AllIdle /\ ret[t][1] \in {"Ok", "Some"}) =>
               held[t][ret[t][2]] > 0
          /\ AllIdle => \A s \in Managed : Held(s) = 0 => Linked(s))
  /\ [][\A t \in Threads :
          (kind # "object" /\ ret'[t] # ret[t] /\ ret'[t][1] = "Ok") =>
            data'[ret'[t][2]] = val[t] /\ payloadLive'[ret'[t][2]]]_vars

\* an arc request given the value 2 has obtained and written a slot that was
\* handed out and recycled before, while the other slot is checked out with
\* the value 1
C13_Witness ==
  /\ kind = "arc"
  /\ \E t \in Threads, s, r \in Slots :
       /\ pc[t] = "req_count" /\ node[t] = s /\ ~fresh[s]
       /\ strong_count[s] = 0 /\ data[s] = 2
       /\ Held(r) = 1 /\ data[r] = 1

(* ---------------------- results of send and recv ----------------------- *)
\* the sender compares the cursors it has loaded
SendObserves == s_pc = "load_read" /\ s_pc' # s_pc

\* the receiver compares the cursors it has loaded
RecvObserves == r_pc = "load_write" /\ r_pc' # r_pc

\* what the steps of send and recv do about the results and the shared state
ResultsStep ==
  /\ SendObserves =>
      IF wrapping_sub(current_write, read) = capacity
        THEN /\ send_ret' = <<"Err", value>> /\ s_pc' = "idle"
             /\ UNCHANGED <<read, write, buf>>
        ELSE s_pc' = "write_slot" /\ send_ret' = <<"none">>
  /\ (s_pc = "idle" /\ s_pc' # s_pc) => UNCHANGED <<read, write, buf>>
  /\ (s_pc = "store_write" /\ s_pc' # s_pc) =>
      s_pc' = "idle" /\ send_ret' = <<"Ok">>
  /\ (send_ret' # send_ret /\ send_ret' # <<"none">>) => s_pc' = "idle"
  /\ RecvObserves =>
      IF current_read = write
        THEN /\ recv_ret' = <<"None">> /\ r_pc' = "idle"
             /\ UNCHANGED <<read, write, buf>>
        ELSE r_pc' = "read_slot" /\ recv_ret' = <<"none">>
  /\ (r_pc = "idle" /\ r_pc' # r_pc) => UNCHANGED <<read, write, buf>>
  /\ (r_pc = "store_read" /\ r_pc' # r_pc) =>
      r_pc' = "idle" /\ recv_ret'[1] = "Some"
  /\ (recv_ret' # recv_ret /\ recv_ret' # <<"none">>) => r_pc' = "idle"

\* C14: send returns Err with the value passed in exactly when the cursors it
\* observes satisfy write - read == N (unsigned), recv returns None exactly
\* when the cursors it observes are equal; such a call modifies no cursor and
\* no cell; every other send returns Ok(()) and every other recv Some.
C14_FullAndEmptyResults == [][ResultsStep]_vars

\* a recv on the empty channel has returned None, then the channel of
\* capacity 3 was filled and a send of the value 2 was rejected
C14_Witness ==
  /\ capacity = 3 /\ wrapping_sub(write, read) = capacity
  /\ send_ret = <<"Err", 2>> /\ recv_ret = <<"None">>
  /\ \A i \in 0 .. capacity - 1 : buf[i] = 1

\* a clone has panicked in some thread
Panicked == \E t \in Threads : pc[t] = "panicked"

\* C15: as long as no clone has stopped the program, no strong count exceeds
\* MAX_REFCOUNT.
C15_CountBounded ==
  ~Panicked => \A s \in Slots : strong_count[s] <= MAX_REFCOUNT

\* thread t is inside Stack::push or Stack::pop
InStack(t) ==
  pc[t] \in {"push_ll", "push_next", "push_sc",
             "pop_ll", "pop_next", "pop_sc", "pop_clear"}

\* a push or a pop returns in this step
StackOpReturns ==
  \E t \in Threads : InStack(t) /\ ~InStack(t)'

\* C16: when a store_conditional fails only after a write to top, whenever a
\* push or a pop is in progress some push or pop eventually returns.
\* (Either pushes and pops return again and again, or from some point on none
\* is in progress.)
C16_LockFree ==
  []<><<StackOpReturns>>_vars \/ <>[](\A t \in Threads : ~InStack(t))

\* one thread's store_conditional is bound to fail, its reservation lost to a
\* push or pop that has returned, while the other thread's can still succeed
C16_Witness ==
  \E t, u \in Threads :
    /\ pc[t] = "push_sc" /\ resv[t] = NoResv
    /\ pc[u] = "pop_sc" /\ resv[u] = pool[u]

\* thread t fails a store_conditional and goes back to its load_link
Retries(t) ==
  \/ pc[t] = "push_sc" /\ pc'[t] = "push_ll"
  \/ pc[t] = "pop_sc" /\ pc'[t] = "pop_ll"

\* the store_conditional of thread u succeeds: its push or pop returns
Succeeds(u) ==
  \/ pc[u] = "push_sc" /\ pc'[u] = "idle"
  \/ pc[u] = "pop_sc" /\ pc'[u] = "pop_ret"

RoundTrip(ch, v) ==
  LET a == send(ch, v) IN
    /\ a.res = <<"Ok">>
    /\ \A b \in recv(a.ch) :
         /\ b.res = <<"Some", v>>
         /\ RecvEmpty(b.ch.read, b.ch.write)
         /\ \A c \in recv(b.ch) : c.res = <<"None">>

\* C18: on an empty channel of any capacity, wherever its cursors stand and
\* whatever its cells hold, send(v) returns Ok, the following recv returns
\* Some(v) and leaves the channel empty, and a further recv returns None.
C18_RoundTrip ==
  \A ch \in {wch, zch} :
    RecvEmpty(ch.read, ch.write) => \A v \in Values : RoundTrip(ch, v)

\* a channel of capacity 3 is empty again after round trips that took both
\* cursors across the wrap of the word, and a further recv has returned None
C18_Witness ==
  /\ wch.capacity = 3 /\ wch.read = 0 /\ wch.write = 0
  /\ wch.buf[0] # Uninit /\ wres = <<"None">>

(* ========================= properties of Vec =========================== *)
\* the last element pushed and not popped
VecLast == IF v_elems = <<>> THEN Uninit ELSE v_elems[Len(v_elems)]

\* what a call of push or pop returns and does to the vector
VecStep ==
  /\ v_arg' # Uninit =>
       IF v_len < VecCapacity
         THEN /\ v_ret' = <<"Ok">> /\ v_len' = v_len + 1
              /\ VecSlice' = Append(VecSlice, v_arg')
         ELSE /\ v_len = VecCapacity /\ v_ret' = <<"Err", v_arg'>>
              /\ UNCHANGED <<v_len, v_storage>>
  /\ v_arg' = Uninit =>
       IF v_len = 0
         THEN v_ret' = <<"None">> /\ UNCHANGED <<v_len, v_storage>>
         ELSE /\ v_ret' = <<"Some", VecLast>>
              /\ v_len' = v_len - 1
              /\ VecSlice' = SubSeq(VecSlice, 1, v_len - 1)

\* C19: for any buffer length, buffer address, element size and sequence of
\* push and pop: push appends and returns Ok while len < capacity and returns
\* Err(element) leaving the vector unchanged when len == capacity; pop returns
\* the last element pushed and not popped, or None when the vector is empty;
\* len never exceeds capacity, the vector is the sequence of elements pushed
\* and not popped, and no access leaves the buffer.
C19_VecPushPop ==
  /\ [](v_len <= VecCapacity /\ VecSlice = v_elems /\ ~v_ub)
  /\ [][VecStep]_vars

\* a vector of 3-byte elements in a misaligned buffer is full with two
\* elements, and the push of a third has been rejected
C19_Witness ==
  /\ v_size = 3 /\ v_addr % v_size # 0 /\ VecCapacity = 2
  /\ v_elems = <<1, 2>> /\ v_ret = <<"Err", 2>>

(* ================================ ABA ================================== *)
\* the pop of thread t is between its load_link and its store_conditional
PopWindow(t) == pc[t] \in {"pop_next", "pop_sc"}

\* the store_conditional of the pop of thread t succeeds in this step
PopSucceeds(t) == pc[t] = "pop_sc" /\ pc'[t] = "pop_ret"

\* C20: a write to top by another push or pop between a pop's load_link and
\* its store_conditional takes the pop's reservation away, whatever pointer
\* top holds afterwards, and the store_conditional succeeds only while the
\* reservation stands; so a pop that succeeds removes the node that is top
\* and installs the current successor of that node.
C20_NoABA ==
  [][\A t \in Threads :
       /\ (PopWindow(t) /\ \E u \in Threads \ {t} :
                             Succeeds(u) /\ pool[u] = pool[t]) =>
            resv'[t] = NoResv
       /\ PopSucceeds(t) =>
            /\ resv[t] = pool[t]
            /\ top[pool[t]] = ltop[t]
            /\ lnext[t] = next[ltop[t]]
            /\ top'[pool[t]] = next[ltop[t]]]_vars

\* a pop is at its store_conditional and top again holds the node the pop
\* loaded, popped and pushed back by the other thread, with a successor that
\* is no longer the one the pop has read; the reservation is lost
C20_Witness ==
  \E t \in Threads :
    /\ pc[t] = "pop_sc" /\ top[pool[t]] = ltop[t]
    /\ lnext[t] # next[ltop[t]] /\ resv[t] = NoResv

(* ==================== cells of the channel, races ====================== *)
\* the cell the sender is about to write
SendCell == SlotIndex(current_write, capacity)

\* the cell the receiver is about to read
RecvCell == SlotIndex(current_read, capacity)

\* C21: the sender never writes a cell whose value was sent and is not yet
\* read, the receiver never reads a cell that holds no sent value, and the
\* two sides are never about to access the same cell at the same time.
C21_NoCellRace ==
  /\ s_pc = "write_slot" => ~cellLive[SendCell]
  /\ r_pc = "read_slot" => cellLive[RecvCell]
  /\ ~(s_pc = "write_slot" /\ r_pc = "read_slot" /\ SendCell = RecvCell)

(* ===================== concurrent drops of an Arc ====================== *)
\* thread t is in the part of Arc::drop that follows a fetch_sub returning 1
LastDrop(t, s) ==
  /\ op[t] = "drop" /\ node[t] = s
  /\ pc[t] \in {"drop_in_place", "push_ll", "push_next", "push_sc"}

\* thread t executes the fetch_sub of Arc::drop in this step
Decrements(t) == pc[t] = "drop_sub" /\ pc'[t] # pc[t]

\* C22: of the drops of the Arc handles of one checkout exactly the one whose
\* fetch_sub returns 1 goes on to run the destructor and push the slot, at
\* most one thread is ever in that part for a slot and no handle of the slot
\* is left then; every other drop returns at its decrement and changes
\* nothing but the strong count.
C22_OneLastDrop ==
  /\ [](kind = "arc" =>
          \A s \in Slots :
            /\ Cardinality({t \in Threads : LastDrop(t, s)}) <= 1
            /\ (\E t \in Threads : LastDrop(t, s)) =>
                 strong_count[s] = 0 /\ Handles(s) = 0
            /\ dtors[s] <= 1)
  /\ [][\A t \in Threads :
          Decrements(t) =>
            /\ strong_count'[node[t]] = strong_count[node[t]] - 1
            /\ IF strong_count[node[t]] = 1
                 THEN pc'[t] = "drop_in_place"
                 ELSE /\ pc'[t] = "idle"
                      /\ UNCHANGED <<top, next, data, payloadLive, dtors,
                                     stack>>]_vars

\* two threads are dropping the two handles of one slot at once and neither
\* has decremented yet
C22_Witness ==
  /\ kind = "arc"
  /\ \E t, u \in Threads :
       /\ t # u /\ pc[t] = "drop_sub" /\ pc[u] = "drop_sub"
       /\ node[t] = node[u] /\ strong_count[node[t]] = 2

(* ================= destructor before relinking ========================= *)
\* thread t has obtained slot s from pop and has not made a handle of it yet
Obtained(t, s) ==
  \/ pc[t] = "pop_ret" /\ ltop[t] = s
  \/ pc[t] = "req_count" /\ node[t] = s

\* the destructor of the payload of slot s is still to run in a drop
Destructing(s) == \E t \in Threads : pc[t] = "drop_in_place" /\ node[t] = s

\* C23: in box and arc pools a drop pushes a slot only after the payload's
\* destructor has run: a slot that is linked, or that a drop is pushing, has
\* no live payload and no destructor pending, and a slot obtained by a
\* request has no destructor pending and, until the request writes it, no
\* live payload.
C23_DestructBeforePush ==
  kind # "object" =>
    \A s \in Slots :
      /\ Linked(s) => ~payloadLive[s] /\ ~Destructing(s)
      /\ \A t \in Threads :
           /\ (op[t] = "drop" /\ node[t] = s
                 /\ pc[t] \in {"push_ll", "push_next", "push_sc"}) =>
                ~payloadLive[s] /\ dtors[s] = 1
           /\ Obtained(t, s) => ~Destructing(s)
           /\ (pc[t] = "pop_ret" /\ ltop[t] = s) => ~payloadLive[s]

\* a request has obtained a slot whose payload a drop has destructed, while
\* the destructor of the other slot's payload is still to run
C23_Witness ==
  /\ kind = "box"
  /\ \E t \in Threads, s, r \in Slots :
       /\ pc[t] = "pop_ret" /\ ltop[t] = s /\ dtors[s] = 1
       /\ r # s /\ Destructing(r) /\ payloadLive[r]

(* ================== initialised payloads and cells ===================== *)
\* slot s has a handle: held, being made by an arc request that has written
\* the payload, or in a drop that has not destructed or decremented yet
HandleOutstanding(s) ==
  \/ Held(s) > 0
  \/ \E t \in Threads :
       node[t] = s /\ pc[t] \in {"req_count", "drop_sub", "drop_in_place"}

\* C24: in box and arc pools the payload of a slot is initialised exactly
\* while a handle of the slot is outstanding: a held handle dereferences to an
\* initialised value, and a linked slot holds no live payload.
C24_InitialisedWhileHeld ==
  kind # "object" =>
    \A s \in Slots :
      /\ payloadLive[s] <=> HandleOutstanding(s)
      /\ Held(s) > 0 => payloadLive[s] /\ data[s] \in Values
      /\ Linked(s) => ~payloadLive[s]

\* an arc slot has two handles and a live payload while the other slot,
\* handed out before, is linked again with its payload destructed
C24_Witness ==
  /\ kind = "arc"
  /\ \E s, r \in Slots :
       /\ Held(s) = 2 /\ payloadLive[s]
       /\ ~fresh[r] /\ Linked(r) /\ ~payloadLive[r]

\* cursor values from read up to, not including, write
InChannel == {wrapping_add(read, k) : k \in 0 .. wrapping_sub(write, read) - 1}

\* the cells that hold a value sent and not received: those of the cursors in
\* [read, write), the cell the sender has written without having moved
\* `write` yet, but not the cell the receiver has read without having moved
\* `read` yet
ExpectedCells ==
  ({SlotIndex(c, capacity) :
      c \in InChannel \ (IF r_pc = "store_read" THEN {current_read} ELSE {})}
   \cup (IF s_pc = "store_write" THEN {SendCell} ELSE {}))

\* C25: exactly the cells c mod N for the cursors c in [read, write) hold a
\* value sent and not received, for every N and across the cursor wrap (a
\* cell in the middle of a send or of a recv counted with the side that has
\* accessed it).
C25_CellsOfCursors ==
  \A i \in 0 .. capacity - 1 : cellLive[i] <=> i \in ExpectedCells

(* ====================== strong count of zero =========================== *)
\* C27 as claimed: whenever the strong count of an arc slot is zero, the slot
\* is linked in its pool's stack and its payload has been destructed.
C27_ZeroMeansFree ==
  kind = "arc" =>
    \A s \in Slots :
      strong_count[s] = 0 => Linked(s) /\ ~payloadLive[s] /\ dtors[s] = 1

\* C27 as amended: whenever the strong count of an arc slot is zero no handle
\* of the slot exists, and the slot is either linked in its pool's stack with
\* its payload destructed, or owned by exactly one thread: the one finishing
\* the last drop (destructor and push) or the one in the request that has
\* popped it and has not stored the count 1 yet.
C27_ZeroMeansNoHandle ==
  kind = "arc" =>
    \A s \in Slots :
      strong_count[s] = 0 =>
        /\ Handles(s) = 0
        /\ \/ Linked(s) /\ ~payloadLive[s] /\ dtors[s] = 1 /\ Owners(s) = 0
           \/ ~Linked(s) /\ Owners(s) = 1

\* one slot with count zero is linked and destructed while the other, with
\* count zero too, is in the hands of the thread finishing its last drop
C27_Witness ==
  /\ kind = "arc"
  /\ \E s, r \in Slots :
       /\ strong_count[s] = 0 /\ Linked(s) /\ dtors[s] = 1
       /\ strong_count[r] = 0 /\ \E t \in Threads : LastDrop(t, r)

(* ====================== who moves which cursor ========================= *)
\* send returns Ok(()) in this step
SendReturnsOk == s_pc = "store_write" /\ s_pc' = "idle"

\* recv returns Some(value) in this step
RecvReturnsSome == r_pc = "store_read" /\ r_pc' = "idle"

CursorStep ==
  /\ write' # write => SendReturnsOk
  /\ read' # read => RecvReturnsSome
  /\ SendReturnsOk =>
       /\ send_ret' = <<"Ok">>
       /\ write' = wrapping_add(write, 1)
       /\ read' = read
  /\ RecvReturnsSome =>
       /\ recv_ret'[1] = "Some"
       /\ read' = wrapping_add(read, 1)
       /\ write' = write

\* C28: the write cursor changes only in the step in which send returns Ok
\* and the read cursor only in the step in which recv returns Some; that
\* step adds exactly 1 modulo the word size to its own cursor and leaves the
\* other cursor alone; every other step, a rejected send or recv included,
\* leaves both cursors as they are.
C28_CursorFrame == [][CursorStep]_vars

\* both cursors have gone around the word: the sender has just stored 0 after
\* the largest cursor value, the receiver did so before
C28_Witness ==
  /\ send_ret = <<"Ok">> /\ s_pc = "idle" /\ write = 0
  /\ recv_ret[1] = "Some" /\ r_pc = "idle" /\ read = 0
  /\ capacity = MaxCapacity

(* ====================== full and empty are transient =================== *)
\* a send rejected with Err is followed by a send that returns Ok
C29_FullIsTransient == (send_ret[1] = "Err") ~> (send_ret = <<"Ok">>)

\* a recv that returned None is followed by a recv that returns Some
C29_EmptyIsTransient == (recv_ret = <<"None">>) ~> (recv_ret[1] = "Some")

\* the tracked value, once accepted by send, is returned by a recv
C29_AcceptedIsReturned == (marked = "sent") ~> (marked = "returned")

\* C29: with both sides weakly fair, a sender retrying on a full channel
\* eventually gets Ok, a receiver retrying on an empty channel eventually
\* gets Some, and every value accepted by send is eventually returned by
\* recv.
C29_Transient ==
  /\ C29_FullIsTransient
  /\ C29_EmptyIsTransient
  /\ C29_AcceptedIsReturned

(* ====================== the back-pointer of a slot ===================== *)
\* request of thread t returns a handle in this step
RequestReturnsHandle(t) == ret[t] = NoRet /\ ret'[t][1] \in {"Ok", "Some"}

\* the drop of a handle starts in this step
DropStarts(t) == pc[t] = "idle" /\ op'[t] = "drop"

\* the push that ends a drop succeeds in this step
DropRelinks(t) == op[t] = "drop" /\ pc[t] = "push_sc" /\ pc'[t] = "idle"

BackPointerStep ==
  /\ \A s \in Slots : stack[s] # None => stack'[s] = stack[s]
  /\ \A t \in Threads :
       /\ RequestReturnsHandle(t) => stack[ret'[t][2]] = pool[t]
       /\ DropStarts(t) =>
            /\ pc'[t] # "unreachable"
            /\ pool'[t] = stack[node'[t]]
       /\ DropRelinks(t) =>
            /\ pool[t] = stack[node[t]]
            /\ top'[stack[node[t]]] = node[t]

\* C26: a back-pointer that is set never changes; a handle that request
\* returns from a pool is of a slot whose back-pointer is that pool, every
\* handle held is of a slot with its back-pointer set, and every linked slot
\* is linked in the stack its back-pointer names; a drop never finds None
\* (the unreachable! arm) and its push relinks the slot into the pool of the
\* back-pointer, with several pools in use.
C26_BackPointer ==
  /\ [](/\ \A t \in Threads : pc[t] # "unreachable"
        /\ \A s \in Slots : Held(s) > 0 => stack[s] \in AllPools
        /\ \A p \in AllPools : \A s \in SeqToSet(Chain(p)) : stack[s] = p)
  /\ [][BackPointerStep]_vars

\* the two slots belong to different pools; one has been requested from the
\* second pool and dropped back into it, a handle of the other is held
C26_Witness ==
  \E s, r \in Slots :
    /\ stack[s] = 2 /\ ~fresh[s] /\ Chain(2) = <<s>>
    /\ stack[r] = 1 /\ Held(r) > 0

(* ================= no reservation outlives a push or pop =============== *)
\* push or pop of thread t returns in this step
StackOpReturnsOf(t) ==
  \/ pc[t] = "push_sc" /\ pc'[t] # "push_sc" /\ pc'[t] # "push_ll"
  \/ pc[t] \in {"pop_sc", "pop_clear"} /\ pc'[t] = "pop_ret"

\* the store_conditional of thread t succeeds in this step
StoreConditionalSucceeds(t) ==
  \/ pc[t] = "push_sc" /\ pc'[t] # "push_sc" /\ pc'[t] # "push_ll"
  \/ pc[t] = "pop_sc" /\ pc'[t] = "pop_ret"

ReservationStep ==
  \A t \in Threads :
    /\ StackOpReturnsOf(t) =>
         /\ resv'[cpu[t]] = NoResv
         /\ StoreConditionalSucceeds(t) \/ (pc[t] = "pop_clear" /\ ltop[t] = Null)
    /\ StoreConditionalSucceeds(t) =>
         /\ resv[cpu[t]] = pool[t]
         /\ top[pool[t]] = ltop[t]
         /\ pc[t] = "pop_sc" => lnext[t] = next[ltop[t]]

\* C30: a push or pop returns only from a successful store_conditional or,
\* for a pop that found the stack empty, from clear, and leaves the monitor
\* of its core without a reservation; so the monitor holds no reservation
\* while no context of the core is inside a push or pop, and a
\* store_conditional succeeds only on the reservation its own operation took
\* on that stack with its latest load_link, `top` and the link read being
\* unchanged since: never on a reservation left by an earlier or a preempting
\* operation.
C30_NoReservationLeft ==
  /\ []((\A t \in Threads : ~InStack(t)) => \A m \in Threads : resv[m] = NoResv)
  /\ [][ReservationStep]_vars

\* thread 1, between load_link and store_conditional on the first pool, has
\* lost its reservation to the interrupt handler, whose last operation was a
\* request that found the second pool's stack empty and has returned
C30_Witness ==
  /\ cpu = OneCore
  /\ pc[1] \in {"push_sc", "pop_sc"} /\ pool[1] = 1 /\ resv[1] = NoResv
  /\ pc[2] = "idle" /\ ret[2][1] \in {"None", "Err"}
  /\ top[1] # Null /\ top[2] = Null

====
